---- MODULE Spec2Model ----
(***************************************************************************)
(* Webhook tenant actors of the agents monorepo: the GitHub agent (the     *)
(* drizzle variant of agents/github/src/github-agent.ts and the earlier    *)
(* this.sql variant kept in lib/index.ts) and the Linear agent             *)
(* (agents/linear/src/linear-agent.ts), with the routers that pick the     *)
(* actor of a webhook.  An invocation of onRequest is a record in the bag  *)
(* `inflight`, and every action is the code that runs between two awaits.  *)
(*                                                                         *)
(* Spec        one actor, every kind of inbound request, a working store   *)
(* SpecLedger  one actor, well-formed deliveries, a clock, a store whose   *)
(*             insert may fail, restarts and the callable queries          *)
(* SpecTenants the router in front of the actors of several tenant keys    *)
(* SpecClassify, SpecVerify  extractEventInfo and verifySignature applied  *)
(*             to inputs drawn from bounded sets                           *)
(***************************************************************************)
EXTENDS Integers, Sequences, FiniteSets, Bags, TLC

VARIABLES
    kind,       \* which implementation this actor runs
    events,     \* the ledger table (events / sessions), rows in insertion order
    schema,     \* the tables and indexes of the storage, and the migrations applied
    oktokitCache, \* installation id -> the client cached for it (named by the
                \* delivery that made it); in memory, one per actor instance
    state,      \* the agent state last given to setState (initialState before)
    inflight,   \* bag of invocations suspended at an await
    resp,       \* the HTTP response produced by the last step, or NoResp
    broadcast,  \* the state setState broadcast in the last step, or NoPush
    call,       \* the provider API call that finished in the last step, or NoCall
    spawned,    \* the id whose responder was started in the last step, or Null
    started,    \* ids whose responder has been started (history)
    acked,      \* ids a well-formed delivery of which was answered 200 (history)
    failed,     \* ids a delivery of which ended in a failed insert (history)
    dbOps,      \* the storage statements the last step executed
    now,        \* the wall clock, in milliseconds
    result,     \* what the callable query of the last step returned, or NoResult
    actors,     \* SpecTenants: tenant key -> the ledger and state of its actor
    routed,     \* SpecTenants: what the router did with the last webhook
    probe       \* SpecClassify, SpecVerify: the input, and the output once computed

vars == <<kind, events, schema, oktokitCache, state, inflight, resp, broadcast, call, spawned,
          started, acked, failed, dbOps, now, result, actors, routed, probe>>

\* The most invocations suspended at the same time.
MaxInFlight == 2

Null == "null"
NoResp == [status |-> 0]
NoPush == [none |-> TRUE]
NoCall == [api |-> Null]
NoResult == [none |-> TRUE]

\* An optional value: a header that may be absent, a field that may be undefined.
Absent == [has |-> FALSE, value |-> <<>>]
Present(v) == [has |-> TRUE, value |-> v]

Kinds == {"github", "githubSql", "linear"}
IsGitHub == kind \in {"github", "githubSql"}

----------------------------------------------------------------------------
(* Request bodies and what JSON.parse makes of them.                        *)

\* A text of n characters, the i-th of which depends on i.
Text(n) == [i \in 1..n |-> i % 7]

NoIssue == [has |-> FALSE, title |-> "", body |-> Absent, html_url |-> ""]
Issue(title, body, url) == [has |-> TRUE, title |-> title, body |-> body, html_url |-> url]
NoRepository == [has |-> FALSE, owner |-> "", name |-> ""]
Repository(owner, name) == [has |-> TRUE, owner |-> owner, name |-> name]

GitHubBodies == {"ghOpened", "ghPush", "ghBad", "ghOpenedR2", "ghInstall"}
LinearBodies == {"lnCreated1", "lnPrompted1", "lnCreated2", "lnOther", "lnNoSession", "lnBad"}
LinearTenantBodies == {"lnCreatedB", "lnNoOrg"}
\* Issue events of two repositories whose owner or name has a hyphen.
GitHubTenantBodies == {"ghHyphenOwner", "ghHyphenName"}
\* Events that get no welcome comment: a closed issue, an issue opened in a
\* repository whose webhook is not an installation's, an opened pull request.
ResponderBodies == {"ghClosed", "ghOpenedNoApp", "ghPrOpened"}
\* A session event whose action is neither created nor prompted.
LinearOtherActionBodies == {"lnUpdated2"}
Bodies ==
    GitHubBodies \cup LinearBodies \cup LinearTenantBodies \cup LinearOtherActionBodies
    \cup GitHubTenantBodies \cup ResponderBodies

\* The fields the agents and the routers read, each absent.  ok = FALSE is
\* JSON.parse throwing a SyntaxError.
\* GitHub: action, installation.id, repository.full_name (owner "/" name),
\* sender.login, issue, pull_request, commits[].message, ref, compare.
\* Linear: type, action, organizationId, agentSession.id (session),
\* agentSession.issue.id / .identifier, agentSession.promptContext.
NoPayload ==
    [ok |-> FALSE, action |-> Null, installation |-> Null, repository |-> NoRepository,
     sender |-> Null, issue |-> NoIssue, pull_request |-> NoIssue, commits |-> Absent,
     ref |-> Null, compare |-> Null,
     type |-> Null, organizationId |-> Null, session |-> Null,
     issueId |-> Null, identifier |-> Null, promptContext |-> Null]

GitHubPayload(action, installation, repository) ==
    [NoPayload EXCEPT !.ok = TRUE, !.action = action, !.installation = installation,
                      !.repository = repository]

LinearPayload(type, action, org, session) ==
    [NoPayload EXCEPT !.ok = TRUE, !.type = type, !.action = action,
                      !.organizationId = org, !.session = session]

JSONparse(body) ==
    CASE body = "ghOpened"    ->
           [GitHubPayload("opened", "i7", Repository("o", "r1")) EXCEPT
              !.sender = "alice", !.issue = Issue("Bug", Present(Text(3)), "u1")]
      [] body = "ghOpenedR2"  ->
           [GitHubPayload("opened", "i7", Repository("o", "r2")) EXCEPT
              !.sender = "alice", !.issue = Issue("Bug", Absent, "u3")]
      [] body = "ghPush"      ->
           [GitHubPayload(Null, Null, Repository("o", "r1")) EXCEPT
              !.commits = Present(<<Text(2), Text(1)>>), !.ref = "main", !.compare = "u2"]
      [] body = "ghInstall"   -> GitHubPayload("created", "i7", NoRepository)
      [] body = "ghHyphenOwner" ->
           [GitHubPayload("opened", "i7", Repository("o-x", "r")) EXCEPT
              !.sender = "alice", !.issue = Issue("Bug", Absent, "u4")]
      [] body = "ghHyphenName" ->
           [GitHubPayload("opened", "i7", Repository("o", "x-r")) EXCEPT
              !.sender = "alice", !.issue = Issue("Bug", Absent, "u5")]
      [] body = "ghClosed" ->
           [GitHubPayload("closed", "i7", Repository("o", "r1")) EXCEPT
              !.sender = "alice", !.issue = Issue("Bug", Absent, "u1")]
      [] body = "ghOpenedNoApp" ->
           [GitHubPayload("opened", Null, Repository("o", "r1")) EXCEPT
              !.sender = "alice", !.issue = Issue("Bug", Absent, "u6")]
      [] body = "ghPrOpened" ->
           [GitHubPayload("opened", "i7", Repository("o", "r1")) EXCEPT
              !.sender = "alice", !.pull_request = Issue("Fix", Absent, "u7")]
      [] body = "lnCreated1"  ->
           [LinearPayload("AgentSessionEvent", "created", "orgA", "s1") EXCEPT
              !.issueId = "iss1", !.identifier = "ENG-1"]
      [] body = "lnPrompted1" ->
           [LinearPayload("AgentSessionEvent", "prompted", "orgA", "s1") EXCEPT
              !.promptContext = "more"]
      [] body = "lnCreated2"  -> LinearPayload("AgentSessionEvent", "created", "orgA", "s2")
      [] body = "lnUpdated2"  -> LinearPayload("AgentSessionEvent", "updated", "orgA", "s2")
      [] body = "lnCreatedB"  -> LinearPayload("AgentSessionEvent", "created", "orgB", "s1")
      [] body = "lnNoOrg"     -> LinearPayload("AgentSessionEvent", "created", Null, "s2")
      [] body = "lnOther"     -> LinearPayload("Issue", "create", "orgA", Null)
      [] body = "lnNoSession" -> LinearPayload("AgentSessionEvent", "created", "orgA", Null)
      [] OTHER                -> NoPayload

----------------------------------------------------------------------------
(* Signature Verifier.                                                      *)

HexDigits == <<"0", "1", "2", "3", "4", "5", "6", "7", "8", "9", "a", "b", "c", "d", "e", "f">>

\* b.toString(16).padStart(2, "0")
ToHex(b) == <<HexDigits[(b \div 16) + 1], HexDigits[(b % 16) + 1]>>

RECURSIVE HexJoin(_)
\* Array.from(bytes).map(toHex).join("")
HexJoin(bytes) ==
    IF bytes = <<>> THEN <<>> ELSE ToHex(Head(bytes)) \o HexJoin(Tail(bytes))

\* crypto.subtle.sign("HMAC", key, body): the digest bytes, here one byte per
\* body, distinct for distinct bodies.
HmacSha256(body) ==
    CASE body = "ghOpened"    -> <<171>>
      [] body = "ghPush"      -> <<5>>
      [] body = "ghBad"       -> <<96>>
      [] body = "lnCreated1"  -> <<18>>
      [] body = "lnPrompted1" -> <<52>>
      [] body = "lnCreated2"  -> <<86>>
      [] body = "lnOther"     -> <<120>>
      [] body = "lnNoSession" -> <<154>>
      [] body = "ghOpenedR2"  -> <<188>>
      [] body = "ghInstall"   -> <<222>>
      [] body = "lnCreatedB"  -> <<35>>
      [] body = "lnNoOrg"     -> <<69>>
      [] body = "lnUpdated2"  -> <<103>>
      [] body = "ghHyphenOwner" -> <<137>>
      [] body = "ghHyphenName" -> <<205>>
      [] body = "ghClosed" -> <<239>>
      [] body = "ghOpenedNoApp" -> <<22>>
      [] body = "ghPrOpened" -> <<56>>
      [] OTHER                -> <<9>>

Sha256Prefix == <<"s", "h", "a", "2", "5", "6", "=">>

\* `expected` of verifySignature: GitHub prefixes the hex digest, Linear does not.
Expected(k, body) ==
    IF k = "linear" THEN HexJoin(HmacSha256(body))
    ELSE Sha256Prefix \o HexJoin(HmacSha256(body))

RECURSIVE Mismatch(_, _, _)
\* The loop `mismatch |= expected.charCodeAt(i) ^ signature.charCodeAt(i)`,
\* from index i on: 0 when every remaining character agrees, non-zero otherwise.
Mismatch(expected, signature, i) ==
    IF i > Len(expected) THEN 0
    ELSE LET x == IF expected[i] = signature[i] THEN 0 ELSE 1
             rest == Mismatch(expected, signature, i + 1)
         IN  IF x = 0 /\ rest = 0 THEN 0 ELSE 1

\* A bug the comparison could have: the lengths are compared, the characters not.
verifySignatureLengthOnly(k, payload, signature) ==
    Len(Expected(k, payload)) = Len(signature)

verifySignature(k, payload, signature) ==
    LET expected == Expected(k, payload)
    IN  IF Len(expected) # Len(signature) THEN FALSE
        ELSE Mismatch(expected, signature, 1) = 0

----------------------------------------------------------------------------
(* Event Classifier: extractEventInfo.  A title is the sequence of the      *)
(* fragments its template joins, a description a sequence of characters.    *)

\* The most characters of an issue or pull request body that are stored.
DescriptionLimit == 500

\* text.slice(0, n)
Slice(text, n) == SubSeq(text, 1, IF Len(text) < n THEN Len(text) ELSE n)

Str(s) == IF s = "" THEN <<>> ELSE <<s>>

\* case "issues" / case "pull_request": item is payload.issue / payload.pull_request.
IssueInfo(item, actor) ==
    [title |-> IF item.has THEN Str(item.title) ELSE <<>>,
     description |-> Slice(IF item.has /\ item.body.has THEN item.body.value ELSE <<>>,
                           DescriptionLimit),
     url |-> IF item.has THEN item.html_url ELSE "",
     actor |-> actor]

\* case "push"
PushInfo(payload, actor) ==
    [title |-> <<"Push to ", IF payload.ref = Null THEN "undefined" ELSE payload.ref>>,
     description |-> IF payload.commits.has /\ Len(payload.commits.value) > 0
                     THEN payload.commits.value[1] ELSE <<>>,
     url |-> IF payload.compare = Null THEN "" ELSE payload.compare,
     actor |-> actor]

\* A bug the default case could have: it falls through to the push case.
DefaultInfoAsPush(eventType, payload, actor) == PushInfo(payload, actor)

\* default:
DefaultInfo(eventType, payload, actor) ==
    [title |-> <<eventType, " event">>, description |-> <<>>, url |-> "", actor |-> actor]

\* A bug the actor could have: `||` for `??`, an empty login taken as none.
ActorOrUnknown(payload) ==
    IF payload.sender \in {Null, ""} THEN "unknown" ELSE payload.sender

\* payload.sender?.login ?? "unknown" (the payload's sender field stands for
\* the login of its sender, Null when the payload has no sender).
Actor(payload) == IF payload.sender = Null THEN "unknown" ELSE payload.sender

extractEventInfo(eventType, payload) ==
    LET actor == Actor(payload)
    IN  CASE eventType = "issues"       -> IssueInfo(payload.issue, actor)
          [] eventType = "pull_request" -> IssueInfo(payload.pull_request, actor)
          [] eventType = "push"         -> PushInfo(payload, actor)
          [] OTHER                      -> DefaultInfo(eventType, payload, actor)

----------------------------------------------------------------------------
(* Inbound requests.                                                        *)

\* A POST carrying the provider's signature of its body.
Signed(k, delivery, event, body) ==
    [method |-> "POST", signature |-> Present(Expected(k, body)),
     delivery |-> delivery, event |-> event, body |-> body]

\* The GitHub deliveries the actor is sent: four well-formed ones, and
\* deliveries with one or several parts wrong.
GitHubRequests(k) ==
    LET base == Signed(k, "d1", "issues", "ghOpened")
    IN  {Signed(k, d, "issues", "ghOpened") : d \in {"d1", "d2"}}
        \cup {Signed(k, d, "push", "ghPush") : d \in {"d1", "d2"}}
        \cup {[base EXCEPT !.method = "GET"],
              [base EXCEPT !.method = "GET", !.signature = Absent],
              [base EXCEPT !.signature = Absent],
              [base EXCEPT !.signature = Present(Expected(k, "ghPush"))],
              [base EXCEPT !.signature = Present(Expected("linear", "ghOpened"))],
              [base EXCEPT !.signature = Present(Expected(k, "ghPush")),
                           !.delivery = Null, !.event = Null],
              [base EXCEPT !.body = "ghBad"],
              [base EXCEPT !.delivery = Null],
              [base EXCEPT !.event = Null],
              Signed(k, "d2", "issues", "ghBad")}

\* The Linear deliveries: the agent reads no delivery or event header.
LinearRequests ==
    LET base == Signed("linear", Null, Null, "lnCreated1")
    IN  {Signed("linear", Null, Null, b) : b \in LinearBodies}
        \cup {[base EXCEPT !.method = "GET"],
              [base EXCEPT !.method = "GET", !.signature = Absent],
              [base EXCEPT !.signature = Absent],
              [base EXCEPT !.signature = Present(Expected("linear", "lnCreated2"))],
              [base EXCEPT !.signature = Present(Expected("github", "lnCreated1"))],
              [base EXCEPT !.body = "lnBad"]}

Requests(k) == IF k = "linear" THEN LinearRequests ELSE GitHubRequests(k)

----------------------------------------------------------------------------
(* Delivery Ledger: the events / sessions table, id the primary key.        *)

HasId(rows, id) == \E i \in 1..Len(rows) : rows[i].id = id

\* A bug the dedup lookup could have: the id is compared with the wrong column.
SelectByType(rows, deliveryId) ==
    SelectSeq(rows, LAMBDA row : row.type = deliveryId)

\* select({id}).from(events).where(eq(events.id, deliveryId)).all()
SelectById(rows, deliveryId) ==
    SelectSeq(rows, LAMBDA row : row.id = deliveryId)

\* A bug the insert could have: the statement reports success and writes
\* no row.
InsertSkipped(rows, row) == [ok |-> TRUE, rows |-> rows]

\* insert(events).values(row).run(): a second row with the same primary key
\* is a constraint error (ok = FALSE: run() throws), the table unchanged.
Insert(rows, row) ==
    IF HasId(rows, row.id) THEN [ok |-> FALSE, rows |-> rows]
    ELSE [ok |-> TRUE, rows |-> Append(rows, row)]

\* A bug the sessions insert could have: no onConflictDoNothing(), a row
\* whose id is stored is a constraint error.
InsertOnConflictThrow(rows, row) ==
    IF row.workspace_id = Null \/ row.action = Null THEN [ok |-> FALSE, rows |-> rows]
    ELSE Insert(rows, row)

\* A bug the insert could have: a row whose id is stored replaces that row.
InsertOrReplace(rows, row) ==
    IF row.workspace_id = Null \/ row.action = Null THEN [ok |-> FALSE, rows |-> rows]
    ELSE IF HasId(rows, row.id)
      THEN [ok |-> TRUE,
            rows |-> [i \in 1..Len(rows) |-> IF rows[i].id = row.id THEN row ELSE rows[i]]]
    ELSE [ok |-> TRUE, rows |-> Append(rows, row)]

\* insert(sessions).values(row).onConflictDoNothing().run(): a row without
\* a value for a NOT NULL column (workspace_id, action) is a constraint error
\* whatever its id; a row whose id is stored is skipped.
InsertOnConflictDoNothing(rows, row) ==
    IF row.workspace_id = Null \/ row.action = Null THEN [ok |-> FALSE, rows |-> rows]
    ELSE IF HasId(rows, row.id) THEN [ok |-> TRUE, rows |-> rows]
    ELSE [ok |-> TRUE, rows |-> Append(rows, row)]

\* A bug the count could have: the rows are counted before the insert.
CountBeforeInsert(rows) == IF rows = <<>> THEN 0 ELSE Len(rows) - 1

\* A bug the count could have: the count is read from a result row that is
\* not there, and the `?? 0` default is taken.
CountDefault(rows) == 0

\* select({count: count()}).from(table).all()[0]?.count ?? 0
CountRows(rows) == Len(rows)

\* new Date(t).toISOString(): digits of fixed width, the most significant
\* first (two of them here, for a clock below 100).
toISOString(t) == <<t \div 10, t % 10>>

RECURSIVE TextLess(_, _)
\* SQLite's comparison of two TEXT values: the first differing character
\* decides, a proper prefix is less.
TextLess(a, b) ==
    IF b = <<>> THEN FALSE
    ELSE IF a = <<>> THEN TRUE
    ELSE IF Head(a) # Head(b) THEN Head(a) < Head(b)
    ELSE TextLess(Tail(a), Tail(b))

\* A bug the query could have: the rows come oldest first.
OrderByTimestampAsc(rows) ==
    {[i \in 1..Len(rows) |-> rows[p[i]]] : p \in
       {q \in Permutations(1..Len(rows)) :
          \A i, j \in 1..Len(rows) :
             i < j => ~TextLess(rows[q[j]].timestamp, rows[q[i]].timestamp)}}

\* .orderBy(desc(table.timestamp)): the orders the clause allows; rows of
\* equal timestamp come in an order SQL leaves open.
OrderByTimestampDesc(rows) ==
    {[i \in 1..Len(rows) |-> rows[p[i]]] : p \in
       {q \in Permutations(1..Len(rows)) :
          \A i, j \in 1..Len(rows) :
             i < j => ~TextLess(rows[q[i]].timestamp, rows[q[j]].timestamp)}}

\* A bug the by-type query could have: the WHERE clause is missing.
WhereNothing(rows, type) == rows

\* .where(eq(events.type, type)) / WHERE type = ${type}
WhereType(rows, type) == SelectSeq(rows, LAMBDA row : row.type = type)

\* .limit(limit).offset(offset)
LimitOffset(rows, limit, offset) ==
    LET from == offset + 1
        to == IF offset + limit < Len(rows) THEN offset + limit ELSE Len(rows)
    IN  SubSeq(rows, from, to)

\* The default of the limit parameter of getEvents and getSessions.
DefaultLimit == 20
\* The default of the offset parameter of getEvents and getSessions.
DefaultOffset == 0

\* The arguments of a call are the sequence the caller passes; a parameter
\* the caller leaves out takes its default.
QueryLimit(args) == IF Len(args) >= 1 THEN args[1] ELSE DefaultLimit

\* getEvents of the sql variant declares no offset parameter and its query
\* has no OFFSET clause: a second argument is dropped.
QueryOffset(k, args) ==
    IF k = "githubSql" THEN 0
    ELSE IF Len(args) >= 2 THEN args[2] ELSE DefaultOffset

----------------------------------------------------------------------------
(* The start routine.  A database is its schema objects (tables, indexes),  *)
(* the migrations recorded as applied, and the rows of the ledger table;    *)
(* ok = FALSE once a statement threw.                                       *)

EmptyDb == [ok |-> TRUE, objects |-> {}, applied |-> {}, rows |-> <<>>]

LedgerTable(k) == IF k = "linear" THEN "sessions" ELSE "events"
LedgerIndexes(k) ==
    IF k = "linear" THEN <<"idx_sessions_workspace", "idx_sessions_timestamp">>
    ELSE <<"idx_events_timestamp", "idx_events_type">>
\* The table in which the migrator records what it applied.
MigrationsTable == "__drizzle_migrations"
\* The one migration of the journal.
MigrationTag == "0000"

\* A bug the start routine could have: the object is dropped and created
\* again, a table losing its rows.
DropAndCreate(db, name) ==
    IF ~db.ok THEN db
    ELSE [db EXCEPT !.objects = @ \cup {name},
                    !.rows = IF name \in {"events", "sessions"} THEN <<>> ELSE @,
                    !.applied = IF name = MigrationsTable THEN {} ELSE @]

\* CREATE TABLE / CREATE INDEX ... IF NOT EXISTS: nothing when the name exists.
CreateIfNotExists(db, name) ==
    IF ~db.ok \/ name \in db.objects THEN db
    ELSE [db EXCEPT !.objects = @ \cup {name}]

\* CREATE TABLE / CREATE INDEX: an error when the name exists.
Create(db, name) ==
    IF ~db.ok THEN db
    ELSE IF name \in db.objects THEN [db EXCEPT !.ok = FALSE]
    ELSE [db EXCEPT !.objects = @ \cup {name}]

\* migrate(db, migrations): the migrator creates its own table if it is not
\* there, and runs in one transaction the statements of a migration that
\* table does not record, then records it.
migrate(k, db) ==
    LET db1 == CreateIfNotExists(db, MigrationsTable)
        db2 == Create(Create(Create(db1, LedgerTable(k)), LedgerIndexes(k)[1]),
                      LedgerIndexes(k)[2])
    IN  IF ~db1.ok \/ MigrationTag \in db1.applied THEN db1
        ELSE IF db2.ok THEN [db2 EXCEPT !.applied = @ \cup {MigrationTag}]
        ELSE [db1 EXCEPT !.ok = FALSE]

\* onStart: the drizzle agents migrate, the sql variant runs its three
\* CREATE ... IF NOT EXISTS statements.
onStart(k, db) ==
    IF k = "githubSql"
    THEN CreateIfNotExists(
           CreateIfNotExists(CreateIfNotExists(db, LedgerTable(k)), LedgerIndexes(k)[1]),
           LedgerIndexes(k)[2])
    ELSE migrate(k, db)

SchemaOf(db) == [objects |-> db.objects, applied |-> db.applied]

----------------------------------------------------------------------------
(* Agent state.                                                             *)

NullEvent == [type |-> Null, action |-> Null, timestamp |-> <<>>]
NullSession == [id |-> Null, action |-> Null, timestamp |-> <<>>]

initialState(k) ==
    IF k = "linear" THEN [sessionCount |-> 0, lastSession |-> NullSession]
    ELSE [eventCount |-> 0, lastEvent |-> NullEvent]

\* The clock when the model starts, and the most ticks it makes after.
ClockStart == 9
MaxTicks == 1

NoRoute == [forwarded |-> FALSE, key |-> "", status |-> 0, body |-> Null, steps |-> <<>>]
NoProbe == [fn |-> Null]

\* One actor after construction.
ActorInit ==
    /\ events = <<>>
    /\ oktokitCache = <<>>
    /\ schema = SchemaOf(onStart(kind, EmptyDb))
    /\ state = initialState(kind)
    /\ inflight = EmptyBag
    /\ resp = NoResp
    /\ broadcast = NoPush
    /\ call = NoCall
    /\ spawned = Null
    /\ started = {}
    /\ acked = {}
    /\ failed = {}
    /\ dbOps = {}
    /\ now = ClockStart
    /\ result = NoResult

Init ==
    /\ kind \in Kinds
    /\ ActorInit
    /\ actors = <<>>
    /\ routed = NoRoute
    /\ probe = NoProbe

----------------------------------------------------------------------------
(* What a delivery is, for the properties below.                            *)

\* The deduplication key of a delivery: the x-github-delivery header, or the
\* agentSession.id of a Linear payload.
Key(k, req) == IF k = "linear" THEN JSONparse(req.body).session ELSE req.delivery

\* The signature header is the provider's signature of the raw body.
SignatureCorrect(k, req) ==
    req.signature.has /\ req.signature.value = Expected(k, req.body)

\* A correctly signed POST with valid JSON and the required metadata.
WellFormed(k, req) ==
    /\ req.method = "POST"
    /\ SignatureCorrect(k, req)
    /\ JSONparse(req.body).ok
    /\ IF k = "linear"
       THEN JSONparse(req.body).type = "AgentSessionEvent" /\ JSONparse(req.body).session # Null
       ELSE req.delivery # Null /\ req.event # Null

----------------------------------------------------------------------------
(* onRequest from the signature result on, as a function of the actor's     *)
(* ledger and state: the response (status 0: none yet), the new ledger and  *)
(* state, whether setState ran, the id the responder is started for, where  *)
(* the invocation suspends next, and the storage statements executed.       *)

\* An early return: the response, and nothing else.
Early(status, text, rows, st, ops) ==
    [status |-> status, text |-> text, rows |-> rows, state |-> st,
     pushed |-> FALSE, spawn |-> Null, next |-> "done", ops |-> ops, steps |-> <<>>]

\* The outcome o of a path on which the handler verified the signature
\* and, where steps says so, parsed the body after that.
Path(steps, o) == [o EXCEPT !.steps = steps]

\* A bug handleEvent could have: every issues event gets the comment.
WelcomeEveryIssue(eventType, action, installationId) == eventType = "issues"

\* handleEvent's condition for the welcome comment.
WelcomeComment(eventType, action, installationId) ==
    eventType = "issues" /\ action = "opened" /\ installationId # Null

\* A bug the insert could have: the row is written, and then the error is thrown.
FailedInsertWritten(rows, row, storageOk) ==
    LET ins == Insert(rows, row)
    IN  IF storageOk THEN ins ELSE [ok |-> FALSE, rows |-> ins.rows]

\* The insert statement against a store that may fail (storageOk = FALSE:
\* the statement throws, the table as it was).
RunInsert(rows, row, storageOk) ==
    IF storageOk THEN Insert(rows, row) ELSE [ok |-> FALSE, rows |-> rows]

\* Where handleSession suspends first: at a thought for the two actions it
\* answers, nowhere for any other.
handleSessionFirst(action) ==
    IF action \in {"created", "prompted"} THEN "thought" ELSE "done"

\* A bug the handler could have: every webhook type is taken for a session event.
AnyWebhookType(payload) == FALSE

\* payload.type !== "AgentSessionEvent"
OtherWebhookType(payload) == payload.type # "AgentSessionEvent"

\* A bug the handler could have: no check of the session before the insert.
AgentSessionUnchecked(payload) == FALSE

\* !agentSession?.id: the payload has no agentSession, or one without an id
\* (the payload's session field stands for agentSession.id).
MissingAgentSession(payload) == payload.session = Null

\* GitHubAgent.onRequest after a signature that verified; t and t2 are the
\* two readings of the clock, for the row and for the summary state.
GitHubAuthorized(k, rows, st, req, t, t2, storageOk) ==
    LET deliveryId == req.delivery
        eventType == IF k = "githubSql" /\ req.event = Null THEN "unknown" ELSE req.event
        payload == JSONparse(req.body)
        action == IF payload.action = Null THEN "" ELSE payload.action
        installationId == payload.installation
        info == extractEventInfo(eventType, payload)
        row == [id |-> deliveryId, type |-> eventType, action |-> action,
                title |-> info.title, description |-> info.description,
                url |-> info.url, actor |-> info.actor, payload |-> req.body,
                installation_id |-> installationId, timestamp |-> toISOString(t)]
        ins == RunInsert(rows, row, storageOk)
        comment == WelcomeComment(eventType, action, installationId)
    IN  IF eventType = Null
          THEN Path(<<"verify">>, Early(400, "Missing x-github-event header", rows, st, {}))
        ELSE IF deliveryId = Null
          THEN Path(<<"verify">>, Early(400, "Missing delivery ID", rows, st, {}))
        ELSE IF Len(SelectById(rows, deliveryId)) > 0
          THEN Path(<<"verify">>, Early(200, "Event already processed", rows, st, {"select"}))
        ELSE IF ~payload.ok
          THEN Path(<<"verify", "parse">>,
                    Early(500, "uncaught exception", rows, st, {"select"}))
        ELSE IF ~ins.ok
          THEN Path(<<"verify", "parse">>,
                    Early(500, "uncaught exception", ins.rows, st, {"select", "insert"}))
        ELSE [status |-> IF comment THEN 0 ELSE 200, text |-> "OK",
              rows |-> ins.rows,
              state |-> [eventCount |-> CountRows(ins.rows),
                         lastEvent |-> [type |-> eventType, action |-> action,
                                        timestamp |-> toISOString(t2)]],
              pushed |-> TRUE, spawn |-> deliveryId,
              next |-> IF comment THEN "handle" ELSE "done",
              ops |-> {"select", "insert", "count", "setState"},
              steps |-> <<"verify", "parse">>]

\* A bug the handler could have: the dedup lookup runs before the signature
\* is checked.
GitHubLookupFirst(k, rows, st, req, t, t2, storageOk) ==
    IF ~verifySignature(k, req.body, req.signature.value)
    THEN Early(401, "Invalid signature", rows, st,
               IF req.delivery = Null THEN {} ELSE {"select"})
    ELSE GitHubAuthorized(k, rows, st, req, t, t2, storageOk)

\* GitHubAgent.onRequest from the result of `await this.verifySignature`.
GitHubOutcome(k, rows, st, req, t, t2, storageOk) ==
    IF ~verifySignature(k, req.body, req.signature.value)
    THEN Early(401, "Invalid signature", rows, st, {})
    ELSE GitHubAuthorized(k, rows, st, req, t, t2, storageOk)

\* LinearAgent.onRequest from the result of `await this.verifySignature`;
\* handleSession runs on under ctx.waitUntil.
LinearOutcome(rows, st, req, t, t2, storageOk) ==
    LET payload == JSONparse(req.body)
        row == [id |-> payload.session, workspace_id |-> payload.organizationId,
                issue_id |-> IF payload.issueId = Null THEN "" ELSE payload.issueId,
                issue_identifier |-> IF payload.identifier = Null THEN ""
                                     ELSE payload.identifier,
                action |-> payload.action,
                prompt_context |-> IF payload.promptContext = Null THEN ""
                                   ELSE payload.promptContext,
                payload |-> req.body, timestamp |-> toISOString(t)]
        ins == IF storageOk THEN InsertOnConflictDoNothing(rows, row)
               ELSE [ok |-> FALSE, rows |-> rows]
    IN  IF ~verifySignature("linear", req.body, req.signature.value)
          THEN Early(401, "Invalid signature", rows, st, {})
        ELSE IF ~payload.ok
          THEN Path(<<"verify", "parse">>, Early(400, "Invalid JSON", rows, st, {}))
        ELSE IF OtherWebhookType(payload)
          THEN Path(<<"verify", "parse">>, Early(200, "OK", rows, st, {}))
        ELSE IF MissingAgentSession(payload)
          THEN Path(<<"verify", "parse">>, Early(400, "Missing agentSession", rows, st, {}))
        ELSE IF ~ins.ok
          THEN Path(<<"verify", "parse">>,
                    Early(500, "uncaught exception", ins.rows, st, {"insert"}))
        ELSE [status |-> 200, text |-> "OK",
              rows |-> ins.rows,
              state |-> [sessionCount |-> CountRows(ins.rows),
                         lastSession |-> [id |-> payload.session,
                                          action |-> payload.action,
                                          timestamp |-> toISOString(t2)]],
              pushed |-> TRUE, spawn |-> payload.session,
              next |-> handleSessionFirst(payload.action),
              ops |-> {"insert", "count", "setState"},
              steps |-> <<"verify", "parse">>]

----------------------------------------------------------------------------
(* One actor: onRequest, one action per stretch of code between two awaits. *)

\* What no step of a handler writes.
fixed == <<kind, schema, oktokitCache, now, actors, routed, probe>>

Remove(inv) == inflight (-) SetToBag({inv})
Suspend(inv, pc) == Remove(inv) (+) SetToBag({[inv EXCEPT !.pc = pc]})

\* return new Response(text, {status})
Answer(req, status, text) ==
    /\ resp' = [status |-> status, text |-> text, req |-> req]
    /\ acked' = IF status = 200 /\ WellFormed(kind, req)
                THEN acked \cup {Key(kind, req)} ELSE acked

\* An early return before the signature result: no storage statement.
Reject(inv, status, text) ==
    /\ Answer(inv.req, status, text)
    /\ inflight' = Remove(inv)
    /\ broadcast' = NoPush
    /\ call' = NoCall
    /\ spawned' = Null
    /\ dbOps' = {}
    /\ result' = NoResult
    /\ UNCHANGED <<events, state, started, failed>>
    /\ UNCHANGED fixed

\* The method check, then signature header read and `await request.text()`.
Receive(req) ==
    /\ BagCardinality(inflight) < MaxInFlight
    /\ IF req.method # "POST"
       THEN /\ Answer(req, 405, "Method not allowed")
            /\ UNCHANGED inflight
       ELSE /\ inflight' = inflight (+) SetToBag({[req |-> req, pc |-> "text"]})
            /\ resp' = NoResp
            /\ UNCHANGED acked
    /\ broadcast' = NoPush
    /\ call' = NoCall
    /\ spawned' = Null
    /\ dbOps' = {}
    /\ result' = NoResult
    /\ UNCHANGED <<events, state, started, failed>>
    /\ UNCHANGED fixed

\* The body is read: `!signature` answers 401 without computing a digest,
\* otherwise `await this.verifySignature(body, signature)`.
BodyRead(inv) ==
    /\ inv.pc = "text"
    /\ IF ~inv.req.signature.has \/ inv.req.signature.value = <<>>
       THEN Reject(inv, 401, "Invalid signature")
       ELSE /\ inflight' = Suspend(inv, "verify")
            /\ resp' = NoResp
            /\ broadcast' = NoPush
            /\ call' = NoCall
            /\ spawned' = Null
            /\ dbOps' = {}
            /\ result' = NoResult
            /\ UNCHANGED <<events, state, started, acked, failed>>
            /\ UNCHANGED fixed

\* The stretch from the signature result to the next await or the response.
Complete(inv, o) ==
    /\ events' = o.rows
    /\ state' = o.state
    /\ broadcast' = IF o.pushed THEN o.state ELSE NoPush
    /\ spawned' = o.spawn
    /\ started' = IF o.spawn = Null THEN started ELSE started \cup {o.spawn}
    /\ failed' = IF o.status = 500 /\ "insert" \in o.ops
                 THEN failed \cup {Key(kind, inv.req)} ELSE failed
    /\ dbOps' = o.ops
    /\ call' = NoCall
    /\ result' = NoResult
    /\ inflight' = IF o.next = "done" THEN Remove(inv) ELSE Suspend(inv, o.next)
    /\ IF o.status = 0
       THEN resp' = NoResp /\ UNCHANGED acked
       ELSE Answer(inv.req, o.status, o.text)
    /\ UNCHANGED <<kind, schema, actors, routed, probe>>

\* The clock after a stretch that read it at t and, when it went as far as
\* setState, again at t2.
ClockAfter(o, t, t2) == IF "setState" \in o.ops THEN t2 ELSE t

\* A bug getOctokit could have: no lookup, every call makes a client and
\* stores it over the one cached.
getOctokitNoLookup(k, cache, installationId, by) ==
    [client |-> by,
     cache |-> [i \in DOMAIN cache \cup {installationId} |->
                  IF i = installationId THEN by ELSE cache[i]]]

\* getOctokit(installationId), called for the delivery `by`: the drizzle
\* agent returns the client its Map holds for the id, or makes one and puts
\* it there; the sql variant has no Map and makes a client at every call.
getOctokit(k, cache, installationId, by) ==
    IF k = "githubSql" THEN [client |-> by, cache |-> cache]
    ELSE IF installationId \in DOMAIN cache
      THEN [client |-> cache[installationId], cache |-> cache]
    ELSE [client |-> by,
          cache |-> [i \in DOMAIN cache \cup {installationId} |->
                       IF i = installationId THEN by ELSE cache[i]]]

\* The stretch ends at `await octokit.rest.issues.createComment` when the
\* event gets the welcome comment: commentOnIssue has taken its client.
GitHubVerified(inv, storageOk, t2) ==
    /\ IsGitHub
    /\ inv.pc = "verify"
    /\ LET o == GitHubOutcome(kind, events, state, inv.req, now, t2, storageOk)
           got == getOctokit(kind, oktokitCache, JSONparse(inv.req.body).installation,
                             inv.req.delivery)
       IN  /\ oktokitCache' = IF o.next = "handle" THEN got.cache ELSE oktokitCache
           /\ Complete(inv, o)
           /\ now' = ClockAfter(o, now, t2)

\* A bug handleEvent could have: no try/catch around the comment call.
handleEventUncaught(apiOk) == ~apiOk

\* Whether handleEvent throws, given how the createComment call ended: its
\* own try/catch logs the failure.
handleEventThrows(apiOk) == FALSE

\* The comment call ends; onRequest resumes after `await this.handleEvent`.
\* The drizzle variant wraps the await in try/catch, the sql variant does not.
GitHubHandled(inv, apiOk) ==
    /\ IsGitHub
    /\ inv.pc = "handle"
    /\ call' = [api |-> "createComment", ok |-> apiOk, id |-> inv.req.delivery,
                client |-> getOctokit(kind, oktokitCache,
                                      JSONparse(inv.req.body).installation,
                                      inv.req.delivery).client]
    /\ IF handleEventThrows(apiOk) /\ kind = "githubSql"
       THEN Answer(inv.req, 500, "uncaught exception")
       ELSE Answer(inv.req, 200, "OK")
    /\ inflight' = Remove(inv)
    /\ broadcast' = NoPush
    /\ spawned' = Null
    /\ dbOps' = {}
    /\ result' = NoResult
    /\ UNCHANGED <<events, state, started, failed>>
    /\ UNCHANGED fixed

LinearVerified(inv, storageOk, t2) ==
    /\ kind = "linear"
    /\ inv.pc = "verify"
    /\ LET o == LinearOutcome(events, state, inv.req, now, t2, storageOk)
       IN  Complete(inv, o) /\ now' = ClockAfter(o, now, t2)
    /\ UNCHANGED oktokitCache

\* A bug handleSession could have: the response is sent whether or not the
\* thought went through.
handleSessionIgnoresThought(pc, apiOk) ==
    IF pc = "thought" THEN "response"
    ELSE IF pc = "response" /\ ~apiOk THEN "error"
    ELSE "done"

\* Where handleSession goes when the emitActivity it awaits ends: thought,
\* then response; a failure of either goes to the catch block's emitError,
\* after which the task ends.
handleSessionNext(pc, apiOk) ==
    IF pc = "thought" /\ apiOk THEN "response"
    ELSE IF pc \in {"thought", "response"} /\ ~apiOk THEN "error"
    ELSE "done"

\* A bug handleSession could have: no .catch on the emitError promise.
handleSessionUncaught(pc, apiOk) == pc = "error" /\ ~apiOk

\* Whether the handleSession promise rejects when the emitActivity it awaits
\* ends: the try/catch takes a failed thought or response, the .catch on
\* emitError takes a failed error activity.
handleSessionThrows(pc, apiOk) == FALSE

\* handleSession: an emitActivity fetch ends.
LinearEmitted(inv, apiOk) ==
    /\ kind = "linear"
    /\ inv.pc \in {"thought", "response", "error"}
    /\ call' = [api |-> inv.pc, ok |-> apiOk, id |-> JSONparse(inv.req.body).session,
                threw |-> handleSessionThrows(inv.pc, apiOk)]
    /\ inflight' = IF handleSessionNext(inv.pc, apiOk) = "done" THEN Remove(inv)
                   ELSE Suspend(inv, handleSessionNext(inv.pc, apiOk))
    /\ resp' = NoResp
    /\ broadcast' = NoPush
    /\ spawned' = Null
    /\ dbOps' = {}
    /\ result' = NoResult
    /\ UNCHANGED <<events, state, started, acked, failed>>
    /\ UNCHANGED fixed

Next ==
    \/ \E req \in Requests(kind) : Receive(req)
    \/ \E inv \in BagToSet(inflight) : BodyRead(inv)
    \/ \E inv \in BagToSet(inflight) : GitHubVerified(inv, TRUE, now)
    \/ \E inv \in BagToSet(inflight), apiOk \in BOOLEAN : GitHubHandled(inv, apiOk)
    \/ \E inv \in BagToSet(inflight) : LinearVerified(inv, TRUE, now)
    \/ \E inv \in BagToSet(inflight), apiOk \in BOOLEAN : LinearEmitted(inv, apiOk)

Spec == Init /\ [][Next]_vars

----------------------------------------------------------------------------
(* The GitHub actor sent events of several types and actions, two requests  *)
(* at a time.                                                               *)

\* Signed deliveries: an opened issue of an installation under two ids, and
\* under the same ids a closed issue, an opened issue without installation
\* and an opened pull request; a push.
ResponderRequests(k) ==
    {Signed(k, d, "issues", "ghOpened") : d \in {"d1", "d2"}}
    \cup {Signed(k, "d1", "issues", "ghClosed"),
          Signed(k, "d2", "issues", "ghOpenedNoApp"),
          Signed(k, "d1", "pull_request", "ghPrOpened"),
          Signed(k, "d2", "push", "ghPush")}

InitResponder ==
    /\ kind \in {"github", "githubSql"}
    /\ ActorInit
    /\ actors = <<>>
    /\ routed = NoRoute
    /\ probe = NoProbe

NextResponder ==
    \/ \E req \in ResponderRequests(kind) : Receive(req)
    \/ \E inv \in BagToSet(inflight) : BodyRead(inv)
    \/ \E inv \in BagToSet(inflight) : GitHubVerified(inv, TRUE, now)
    \/ \E inv \in BagToSet(inflight), apiOk \in BOOLEAN : GitHubHandled(inv, apiOk)

SpecResponder == InitResponder /\ [][NextResponder]_vars

----------------------------------------------------------------------------
(* The actor with its clock, a store whose insert may fail, restarts and    *)
(* the callable queries, sent well-formed deliveries and queries one after  *)
(* the other (each arrives when no invocation is suspended).                *)

WellFormedRequests(k) ==
    {req \in Requests(k) : WellFormed(k, req)}
    \cup (IF k = "linear"
          THEN {Signed("linear", Null, Null, b) : b \in LinearOtherActionBodies} ELSE {})

\* What a reading of the clock made later in the same stretch may give.
ClockReadings == now..(ClockStart + MaxTicks)

\* Time passes between two steps.
Tick ==
    /\ now < ClockStart + MaxTicks
    /\ now' = now + 1
    /\ resp' = NoResp
    /\ broadcast' = NoPush
    /\ call' = NoCall
    /\ spawned' = Null
    /\ dbOps' = {}
    /\ result' = NoResult
    /\ UNCHANGED <<kind, events, schema, oktokitCache, state, inflight, started, acked, failed,
                   actors,
                   routed, probe>>

\* The actor is evicted or reset and starts again: the invocations in
\* progress are gone and onStart runs on the storage as it is; the ledger,
\* the schema and the agent state are in the actor's storage.
Restart ==
    /\ LET db == onStart(kind, [ok |-> TRUE, objects |-> schema.objects,
                                applied |-> schema.applied, rows |-> events])
       IN  /\ events' = db.rows
           /\ schema' = SchemaOf(db)
           /\ dbOps' = IF db.ok THEN {"migrate"} ELSE {"migrate", "error"}
    /\ inflight' = EmptyBag
    /\ resp' = NoResp
    /\ broadcast' = NoPush
    /\ call' = NoCall
    /\ spawned' = Null
    /\ result' = NoResult
    /\ oktokitCache' = <<>>
    /\ UNCHANGED <<state, started, acked, failed>>
    /\ UNCHANGED <<kind, now, actors, routed, probe>>

\* The argument lists the callers of the queries pass.
QueryArgs == {<<>>, <<0>>, <<1>>, <<1, 1>>, <<DefaultLimit, 1>>}

\* getEvents(limit, offset) / getSessions(limit, offset), called with args.
getEvents(args) ==
    /\ \E rows \in OrderByTimestampDesc(events) :
          result' = [fn |-> "getEvents", args |-> args,
                     rows |-> LimitOffset(rows, QueryLimit(args), QueryOffset(kind, args)),
                     limit |-> QueryLimit(args), offset |-> QueryOffset(kind, args)]
    /\ dbOps' = {"select"}
    /\ resp' = NoResp
    /\ broadcast' = NoPush
    /\ call' = NoCall
    /\ spawned' = Null
    /\ UNCHANGED <<events, state, inflight, started, acked, failed>>
    /\ UNCHANGED fixed

\* The event types the callers of getEventsByType ask for.
QueryTypes == {"issues", "push", "ping"}

\* getEventsByType(type, limit, offset) of the GitHub agents, called with
\* the type and args; the sql variant has no offset here either.
getEventsByType(type, args) ==
    /\ IsGitHub
    /\ \E rows \in OrderByTimestampDesc(WhereType(events, type)) :
          result' = [fn |-> "getEventsByType", type |-> type, args |-> args,
                     rows |-> LimitOffset(rows, QueryLimit(args), QueryOffset(kind, args)),
                     limit |-> QueryLimit(args), offset |-> QueryOffset(kind, args)]
    /\ dbOps' = {"select"}
    /\ resp' = NoResp
    /\ broadcast' = NoPush
    /\ call' = NoCall
    /\ spawned' = Null
    /\ UNCHANGED <<events, state, inflight, started, acked, failed>>
    /\ UNCHANGED fixed

NextLedger ==
    \/ \E req \in WellFormedRequests(kind) : inflight = EmptyBag /\ Receive(req)
    \/ \E inv \in BagToSet(inflight) : BodyRead(inv)
    \/ \E inv \in BagToSet(inflight), storageOk \in BOOLEAN, t2 \in ClockReadings :
          GitHubVerified(inv, storageOk, t2)
    \/ \E inv \in BagToSet(inflight), apiOk \in BOOLEAN : GitHubHandled(inv, apiOk)
    \/ \E inv \in BagToSet(inflight), storageOk \in BOOLEAN, t2 \in ClockReadings :
          LinearVerified(inv, storageOk, t2)
    \/ \E inv \in BagToSet(inflight), apiOk \in BOOLEAN : LinearEmitted(inv, apiOk)
    \/ Tick
    \/ Restart
    \/ \E args \in QueryArgs : inflight = EmptyBag /\ getEvents(args)
    \/ \E type \in QueryTypes, args \in QueryArgs :
          inflight = EmptyBag /\ getEventsByType(type, args)

SpecLedger == Init /\ [][NextLedger]_vars

----------------------------------------------------------------------------
(* Routing Resolver: the functions that pick the actor of a webhook.  A     *)
(* routing key is the string its template or its replace() makes.           *)

\* What a router did: each of the three reads the body and hands it to
\* JSON.parse before it picks the actor or refuses.
Forward(key) == [forwarded |-> TRUE, key |-> key, status |-> 0, steps |-> <<"parse">>]
Refuse(status) == [forwarded |-> FALSE, key |-> "", status |-> status, steps |-> <<"parse">>]

\* repository.full_name: the owner's login, "/", the repository's name.
full_name(repository) == repository.owner \o "/" \o repository.name

\* full_name.replace("/", "-"): replace() with a string pattern changes the
\* first "/", which is the one after the login (a login has none).
ReplaceSlash(repository) == repository.owner \o "-" \o repository.name

\* routeGitHubWebhook: `${installationId}/${repoName}`, String(installationId)
\* or "github"; a body that does not parse keeps "github".
routeGitHubWebhook(body) ==
    LET payload == JSONparse(body)
    IN  IF payload.ok /\ payload.installation # Null /\ payload.repository.has
          THEN Forward(payload.installation \o "/" \o full_name(payload.repository))
        ELSE IF payload.ok /\ payload.installation # Null
          THEN Forward(payload.installation)
        ELSE Forward("github")

\* The earlier router (handleGitHubRoute of lib/index.ts, default.fetch of
\* github-agent.ts) for POST /webhooks/github: repo.full_name.replace("/", "-").
handleGitHubRoute(body) ==
    LET payload == JSONparse(body)
    IN  IF ~payload.ok THEN Refuse(400)
        ELSE IF ~payload.repository.has THEN Refuse(400)
        ELSE Forward(ReplaceSlash(payload.repository))

\* routeLinearWebhook: the organizationId, or "linear".
routeLinearWebhook(body) ==
    LET payload == JSONparse(body)
    IN  IF payload.ok /\ payload.organizationId \notin {Null, ""}
          THEN Forward(payload.organizationId)
        ELSE Forward("linear")

Routers(k) ==
    IF k = "linear" THEN {"routeLinearWebhook"}
    ELSE {"routeGitHubWebhook", "handleGitHubRoute"}

Route(router, body) ==
    CASE router = "routeGitHubWebhook" -> routeGitHubWebhook(body)
      [] router = "handleGitHubRoute"  -> handleGitHubRoute(body)
      [] router = "routeLinearWebhook" -> routeLinearWebhook(body)

\* The webhooks sent to the router: signed deliveries that name different
\* tenants, one tenant or none, one whose body is not JSON, and one whose
\* signature is that of another body.
TenantRequests(k) ==
    IF k = "linear"
    THEN {Signed(k, Null, Null, b) :
            b \in {"lnCreated1", "lnCreated2", "lnCreatedB", "lnNoOrg", "lnBad"}}
         \cup {[Signed(k, Null, Null, "lnCreated1")
                   EXCEPT !.signature = Present(Expected(k, "lnCreated2"))]}
    ELSE {Signed(k, d, "issues", b) :
            d \in {"d1", "d2"}, b \in {"ghOpened", "ghOpenedR2", "ghBad"}}
         \cup {Signed(k, d, "push", "ghPush") : d \in {"d1", "d2"}}
         \cup {Signed(k, d, "installation", "ghInstall") : d \in {"d1", "d2"}}
         \cup {[Signed(k, "d1", "issues", "ghOpened")
                   EXCEPT !.signature = Present(Expected(k, "ghPush"))]}

\* The keys the router can forward these webhooks to.
TenantKeys(k, router) ==
    {Route(router, req.body).key :
       req \in {q \in TenantRequests(k) : Route(router, q.body).forwarded}}

\* onRequest of the actor run from the method check to its response (the
\* awaits before the signature result and after setState touch neither the
\* ledger nor the state).
onRequest(k, rows, st, req, t, t2, storageOk) ==
    IF req.method # "POST" THEN Early(405, "Method not allowed", rows, st, {})
    ELSE IF ~req.signature.has \/ req.signature.value = <<>>
      THEN Early(401, "Invalid signature", rows, st, {})
    ELSE IF k = "linear" THEN LinearOutcome(rows, st, req, t, t2, storageOk)
    ELSE GitHubOutcome(k, rows, st, req, t, t2, storageOk)

\* A bug the actors could have: one table shared by the actors of all keys.
DeliverSharedTable(as, key, o) ==
    [k \in DOMAIN as |->
       [events |-> o.rows, state |-> IF k = key THEN o.state ELSE as[k].state]]

\* stub.fetch(request) at the actor named by the key: the handler reads and
\* writes the storage and the state of that actor.
Deliver(as, key, o) ==
    [as EXCEPT ![key] = [events |-> o.rows, state |-> o.state]]

InitTenants ==
    /\ kind \in Kinds
    /\ ActorInit
    /\ probe \in {[fn |-> r] : r \in Routers(kind)}
    /\ actors = [key \in TenantKeys(kind, probe.fn) |->
                   [events |-> <<>>, state |-> initialState(kind)]]
    /\ routed = NoRoute

\* A webhook arrives at the router and is answered.
RouteWebhook(req) ==
    LET r == Route(probe.fn, req.body)
        a == actors[r.key]
        o == onRequest(kind, a.events, a.state, req, now, now, TRUE)
    IN  /\ IF r.forwarded
           THEN /\ actors' = Deliver(actors, r.key, o)
                /\ routed' = [forwarded |-> TRUE, key |-> r.key,
                              status |-> IF o.status = 0 THEN 200 ELSE o.status,
                              body |-> req.body, steps |-> r.steps \o o.steps]
           ELSE /\ routed' = [forwarded |-> FALSE, key |-> "",
                              status |-> r.status, body |-> req.body, steps |-> r.steps]
                /\ UNCHANGED actors
        /\ UNCHANGED <<kind, events, schema, oktokitCache, state, inflight, resp, broadcast,
                   call, spawned,
                       started, acked, failed, dbOps, now, result, probe>>

NextTenants == \E req \in TenantRequests(kind) : RouteWebhook(req)

SpecTenants == InitTenants /\ [][NextTenants]_vars

----------------------------------------------------------------------------
(* The GitHub routers sent webhooks of several repositories.                *)

\* Signed deliveries, each with its own id: issue events of three
\* repositories of one installation, a push without an installation and an
\* installation event without a repository.
RepositoryRequests(k) ==
    {Signed(k, "d1", "issues", "ghOpened"),
     Signed(k, "d2", "issues", "ghHyphenOwner"),
     Signed(k, "d3", "issues", "ghHyphenName"),
     Signed(k, "d4", "push", "ghPush"),
     Signed(k, "d5", "installation", "ghInstall")}

\* The keys the router can forward these webhooks to.
RepositoryKeys(k, router) ==
    {Route(router, req.body).key :
       req \in {q \in RepositoryRequests(k) : Route(router, q.body).forwarded}}

InitRepositories ==
    /\ kind \in {"github", "githubSql"}
    /\ ActorInit
    /\ probe \in {[fn |-> r] : r \in Routers(kind)}
    /\ actors = [key \in RepositoryKeys(kind, probe.fn) |->
                   [events |-> <<>>, state |-> initialState(kind)]]
    /\ routed = NoRoute

NextRepositories == \E req \in RepositoryRequests(kind) : RouteWebhook(req)

SpecRepositories == InitRepositories /\ [][NextRepositories]_vars

----------------------------------------------------------------------------
(* extractEventInfo applied to one event type and payload.                  *)

\* The longest text tried is DescriptionLimit + TextSlack characters.
TextSlack == 2

\* The body of the issue or pull request, or the first commit message:
\* undefined, or a text of a length around the limit.
ClassifyTexts ==
    {Absent} \cup {Present(Text(n)) :
                    n \in {0, 1} \cup (DescriptionLimit - 1)..(DescriptionLimit + TextSlack)}

ClassifyTypes == {"issues", "pull_request", "push", "ping", "unknown"}

\* A payload of the event type carrying the text; one of another type
\* carries it as an issue body all the same.
ClassifyPayload(eventType, whole, text, sender) ==
    LET base == [NoPayload EXCEPT !.ok = TRUE, !.sender = sender]
    IN  IF ~whole THEN base
        ELSE CASE eventType = "pull_request" ->
                    [base EXCEPT !.pull_request = Issue("Fix", text, "u2")]
               [] eventType = "push" ->
                    [base EXCEPT !.commits = IF text.has THEN Present(<<text.value, Text(1)>>)
                                             ELSE Present(<<>>),
                                 !.ref = "main", !.compare = "u3"]
               [] OTHER ->
                    [base EXCEPT !.issue = Issue("Bug", text, "u1")]

ClassifyInputs ==
    {[eventType |-> t, payload |-> ClassifyPayload(t, whole, text, sender)] :
        t \in ClassifyTypes, whole \in BOOLEAN, text \in ClassifyTexts,
        sender \in {Null, "alice", ""}}

NoInfo == [title |-> <<>>, description |-> <<>>, url |-> "", actor |-> ""]

InitClassify ==
    /\ kind = "github"
    /\ ActorInit
    /\ actors = <<>>
    /\ routed = NoRoute
    /\ probe \in {[fn |-> "extractEventInfo", in |-> x, done |-> FALSE, out |-> NoInfo] :
                    x \in ClassifyInputs}

Classify ==
    /\ probe.fn = "extractEventInfo"
    /\ ~probe.done
    /\ probe' = [probe EXCEPT !.done = TRUE,
                               !.out = extractEventInfo(probe.in.eventType, probe.in.payload)]
    /\ UNCHANGED <<kind, events, schema, oktokitCache, state, inflight, resp, broadcast,
                   call, spawned,
                   started, acked, failed, dbOps, now, result, actors, routed>>

NextClassify == Classify

SpecClassify == InitClassify /\ [][NextClassify]_vars

----------------------------------------------------------------------------
(* verifySignature applied to one secret, body and signature.               *)

\* crypto.subtle.importKey("raw", encoder.encode(secret), HMAC, ...):
\* ok = FALSE when it rejects, which it does (DataError) for a key of length
\* zero, the encoding of an empty or undefined secret.
importKey(secret) == [ok |-> secret # ""]

\* verifySignature under the secret of the environment: threw = TRUE when
\* its promise rejects (no try/catch surrounds importKey and sign).
verifySignatureWith(k, secret, payload, signature) ==
    IF ~importKey(secret).ok THEN [threw |-> TRUE, value |-> FALSE]
    ELSE [threw |-> FALSE, value |-> verifySignature(k, payload, signature)]

\* The webhook secret of the environment: set, or left empty.
Secrets == {"whsec", ""}

\* Signatures tried against a body: the right one, the one of another body,
\* the other provider's format, one character short, one long, the last
\* character wrong, and the empty string.
VerifySignatures(k, body) ==
    LET e == Expected(k, body)
    IN  {e,
         Expected(k, IF body = "ghPush" THEN "lnCreated1" ELSE "ghPush"),
         Expected(IF k = "linear" THEN "github" ELSE "linear", body),
         SubSeq(e, 1, Len(e) - 1),
         e \o <<"0">>,
         [e EXCEPT ![Len(e)] = IF e[Len(e)] = "0" THEN "1" ELSE "0"],
         <<>>}

InitVerify ==
    /\ kind \in Kinds
    /\ ActorInit
    /\ actors = <<>>
    /\ routed = NoRoute
    /\ probe \in {[fn |-> "verifySignature", secret |-> secret, body |-> body,
                    signature |-> sig, done |-> FALSE, threw |-> FALSE, out |-> FALSE] :
                    secret \in Secrets, body \in {"ghOpened", "ghPush", "lnCreated1", "ghBad"},
                    sig \in UNION {VerifySignatures(kind, b) :
                                     b \in {"ghOpened", "ghPush", "lnCreated1", "ghBad"}}}

Verify ==
    /\ probe.fn = "verifySignature"
    /\ ~probe.done
    /\ LET r == verifySignatureWith(kind, probe.secret, probe.body, probe.signature)
       IN  probe' = [probe EXCEPT !.done = TRUE, !.threw = r.threw, !.out = r.value]
    /\ UNCHANGED <<kind, events, schema, oktokitCache, state, inflight, resp, broadcast,
                   call, spawned,
                   started, acked, failed, dbOps, now, result, actors, routed>>

NextVerify == Verify

SpecVerify == InitVerify /\ [][NextVerify]_vars

----------------------------------------------------------------------------
(* Properties.                                                              *)

Responded(r) == r.status # 0
Pushed(b) == "none" \notin DOMAIN b
RowsWithId(rows, id) == {i \in 1..Len(rows) : rows[i].id = id}
AwaitingResponse == {inv \in BagToSet(inflight) : inv.pc \in {"text", "verify", "handle"}}
Count(st) == IF kind = "linear" THEN st.sessionCount ELSE st.eventCount

\* C1: a well-formed delivery whose id was already acknowledged is answered
\* 200 again, the row stored for that id is the one row it had and is left
\* as it was; every acknowledged id has exactly one row.
IdempotentAcceptance ==
    [][ /\ \A id \in acked' : Cardinality(RowsWithId(events', id)) = 1
        /\ (/\ Responded(resp')
            /\ WellFormed(kind, resp'.req)
            /\ Key(kind, resp'.req) \in acked)
           => /\ resp'.status = 200
              /\ Len(events') = Len(events)
              /\ \A i \in RowsWithId(events, Key(kind, resp'.req)) : events'[i] = events[i]
      ]_vars

\* C1 witness: a well-formed delivery answered 200 whose id is stored with
\* the body of an earlier, different delivery of the same id.
ResubmissionAnswered ==
    /\ Responded(resp)
    /\ resp.status = 200
    /\ WellFormed(kind, resp.req)
    /\ \E i \in 1..Len(events) :
          events[i].id = Key(kind, resp.req) /\ events[i].payload # resp.req.body

\* C2: a POST whose signature header is missing or is not the signature of
\* its body is answered 401 and the step that answers it stores nothing; no
\* such request is ever past the signature check.
SignatureRejection ==
    [][ /\ \A inv \in BagToSet(inflight') :
              inv.pc \notin {"text", "verify"} => SignatureCorrect(kind, inv.req)
        /\ (/\ Responded(resp')
            /\ resp'.req.method = "POST"
            /\ ~SignatureCorrect(kind, resp'.req))
           => /\ resp'.status = 401
              /\ events' = events
              /\ state' = state
      ]_vars

\* C2 witness: a 401 for a delivery that is valid but for a signature of the
\* right length and the wrong digest, arriving at an actor with stored rows.
ForgedDeliveryRejected ==
    /\ Responded(resp)
    /\ resp.status = 401
    /\ resp.req.signature.has
    /\ Len(resp.req.signature.value) = Len(Expected(kind, resp.req.body))
    /\ JSONparse(resp.req.body).ok
    /\ Len(events) > 0

\* C3 (as claimed): no invocation that has yet to answer is suspended on a
\* responder's provider API call.
ResponseNeverAwaitsResponder ==
    \A inv \in BagToSet(inflight) : inv.pc # "handle"

\* C4 (as claimed): the responder is started at most once per delivery id.
ResponderOncePerDelivery ==
    [][spawned' # Null => spawned' \notin started]_vars

\* C5 (as claimed): setState broadcasts exactly in the steps that store a new
\* row, and never for a delivery whose id is already in the ledger.
OnePushPerAcceptedDelivery ==
    [][ /\ Pushed(broadcast') <=> Len(events') = Len(events) + 1
        /\ Pushed(broadcast') => broadcast' = state' /\ Count(state') = Len(events')
      ]_vars

\* C6 (as claimed): with K rows accepted, the count is K and the last event
\* is the K-th accepted one.
SummaryCorrectness ==
    LET K == Len(events)
    IN  K > 0 =>
          IF kind = "linear"
          THEN /\ state.sessionCount = K
               /\ state.lastSession.id = events[K].id
               /\ state.lastSession.action = events[K].action
          ELSE /\ state.eventCount = K
               /\ state.lastEvent.type = events[K].type
               /\ state.lastEvent.action = events[K].action

\* C7: whenever no request is being processed, the count of the summary
\* state is the number of rows of the ledger.
CountIsLedgerSize ==
    AwaitingResponse = {} => Count(state) = Len(events)

\* C7 witness: no request in progress, two rows stored, and the last request
\* was one that failed or was rejected.
CountAfterFailedRequest ==
    /\ AwaitingResponse = {}
    /\ Len(events) = 2
    /\ Responded(resp)
    /\ resp.status # 200

\* C8: a step in which a responder API call fails changes neither the ledger
\* nor the summary state, and a response it produces is the 200.
ResponderFailureContained ==
    [][(call'.api # Null /\ ~call'.ok)
       => /\ events' = events
          /\ state' = state
          /\ Responded(resp') => resp'.status = 200
      ]_vars

\* C8 witness: the welcome comment failed in the sql variant, whose onRequest
\* has no try/catch around handleEvent, and the delivery was answered 200.
CommentFailedAnswered200 ==
    /\ kind = "githubSql"
    /\ call.api = "createComment"
    /\ ~call.ok
    /\ Responded(resp)
    /\ resp.status = 200
    /\ HasId(events, resp.req.delivery)

\* C9 (as claimed): 405 for a non-POST, 401 for a bad or missing signature,
\* 400 for a signed POST without delivery id or event type, 200 for a
\* well-formed delivery.
DocumentedStatus ==
    Responded(resp) =>
      LET req == resp.req
      IN  IF req.method # "POST" THEN resp.status = 405
          ELSE IF ~SignatureCorrect(kind, req) THEN resp.status = 401
          ELSE IF IsGitHub /\ (req.delivery = Null \/ req.event = Null) THEN resp.status = 400
          ELSE IF /\ kind = "linear"
                  /\ JSONparse(req.body).type = "AgentSessionEvent"
                  /\ JSONparse(req.body).session = Null THEN resp.status = 400
          ELSE WellFormed(kind, req) => resp.status = 200

\* C10 (as claimed): a correctly signed POST whose body is not JSON is
\* answered 4xx, ledger and summary state unchanged.
MalformedJsonIsClientError ==
    [][(/\ Responded(resp')
        /\ resp'.req.method = "POST"
        /\ SignatureCorrect(kind, resp'.req)
        /\ ~JSONparse(resp'.req.body).ok)
       => /\ resp'.status \in 400..499
          /\ events' = events
          /\ state' = state
      ]_vars

\* C11 (as claimed): a correctly signed GitHub POST without the delivery id
\* header or without the event type header is answered 400 and stores
\* nothing, and no stored row has an empty or defaulted id or type.
MissingHeaderRejected ==
    [][IsGitHub =>
        /\ (/\ Responded(resp')
            /\ resp'.req.method = "POST"
            /\ SignatureCorrect(kind, resp'.req)
            /\ (resp'.req.delivery = Null \/ resp'.req.event = Null))
           => /\ resp'.status = 400
              /\ events' = events
        /\ \A i \in 1..Len(events') :
              /\ events'[i].id \notin {Null, ""}
              /\ events'[i].type \notin {Null, "", "unknown"}
      ]_vars

\* C12: a step that answers 401 executes no storage statement (no dedup
\* lookup, no insert, no count, no setState) and leaves the ledger and the
\* summary state as they were.
AuthFailureTouchesNoStorage ==
    [][(Responded(resp') /\ resp'.status = 401)
       => /\ dbOps' = {}
          /\ events' = events
          /\ state' = state
          /\ ~Pushed(broadcast')
      ]_vars

\* C12 witness: a 401 given after the digest was computed, for a delivery
\* whose id is in the ledger, so that a dedup lookup would have found a row.
StoredIdRejected401 ==
    /\ Responded(resp)
    /\ resp.status = 401
    /\ resp.req.signature.has
    /\ resp.req.signature.value # <<>>
    /\ Key(kind, resp.req) # Null
    /\ HasId(events, Key(kind, resp.req))

Returned(r) == "none" \notin DOMAIN r /\ r.fn = "getEvents"
\* The instant a stored timestamp text stands for.
Instant(ts) == ts[1] * 10 + ts[2]

\* C13: getEvents / getSessions returns rows in non-increasing order of the
\* time they were received, and when the stored rows have pairwise distinct
\* timestamps the first row returned (limit > 0, offset 0) is the row
\* accepted last.
RecentFirst ==
    Returned(result) =>
      /\ \A i, j \in 1..Len(result.rows) :
            i < j => Instant(result.rows[i].timestamp) >= Instant(result.rows[j].timestamp)
      /\ (/\ Len(events) > 0
          /\ \A i, j \in 1..Len(events) :
                i # j => events[i].timestamp # events[j].timestamp
          /\ result.limit > 0
          /\ result.offset = 0)
         => result.rows[1] = events[Len(events)]

\* C13 witness: a query that returned two rows received at different times.
TwoRowsReturned ==
    /\ Returned(result)
    /\ Len(result.rows) = 2
    /\ result.rows[1].timestamp # result.rows[2].timestamp

Classified == probe.fn = "extractEventInfo" /\ probe.done

\* The text of the payload a description is taken from, per event type.
SourceText(eventType, payload) ==
    CASE eventType = "issues" ->
           IF payload.issue.has /\ payload.issue.body.has
           THEN payload.issue.body.value ELSE <<>>
      [] eventType = "pull_request" ->
           IF payload.pull_request.has /\ payload.pull_request.body.has
           THEN payload.pull_request.body.value ELSE <<>>
      [] eventType = "push" ->
           IF payload.commits.has /\ Len(payload.commits.value) > 0
           THEN payload.commits.value[1] ELSE <<>>
      [] OTHER -> <<>>

\* C14 (as claimed): for every event type the description has at most
\* DescriptionLimit characters, and is the first DescriptionLimit
\* characters of a source text that is longer.
DescriptionTruncated ==
    Classified =>
      LET source == SourceText(probe.in.eventType, probe.in.payload)
      IN  /\ Len(probe.out.description) <= DescriptionLimit
          /\ Len(source) > DescriptionLimit
               => probe.out.description = SubSeq(source, 1, DescriptionLimit)

\* C15: for an event type other than issues, pull_request and push the
\* title is "<type> event", the description and the url are empty.
TypeFallback ==
    (Classified /\ probe.in.eventType \notin {"issues", "pull_request", "push"})
      => /\ probe.out.title = <<probe.in.eventType, " event">>
         /\ probe.out.description = <<>>
         /\ probe.out.url = ""

\* C15 witness: an unrecognized type classified from a payload that has an
\* issue with a long body, a url and a sender.
OtherTypeClassified ==
    /\ Classified
    /\ probe.in.eventType = "ping"
    /\ probe.in.payload.issue.has
    /\ probe.in.payload.issue.body.has
    /\ Len(probe.in.payload.issue.body.value) > DescriptionLimit
    /\ probe.out.actor = "alice"

\* C16: every step (a delivery, a duplicate, a query, a responder call, a
\* restart, a failed insert) leaves each stored row where it is and as it is.
LedgerAppendOnly ==
    [][\A i \in 1..Len(events) : Len(events') >= i /\ events'[i] = events[i]]_vars

\* C16 witness: a delivery answered 200 whose id was stored earlier, at
\* another time and with another body.
StoredIdDeliveredLater ==
    /\ Responded(resp)
    /\ resp.status = 200
    /\ \E i \in 1..Len(events) :
          /\ events[i].id = Key(kind, resp.req)
          /\ events[i].payload # resp.req.body
          /\ events[i].timestamp # toISOString(now)

\* The insert statement of the step threw: it ran, the count after it did not.
InsertThrew(ops) == "insert" \in ops /\ "count" \notin ops

\* C17: a step whose insert throws answers 5xx and changes neither the
\* ledger nor the summary state, broadcasts nothing and starts no responder;
\* a later delivery of an id whose insert failed and that has no row is
\* processed as a new one: row stored, count updated, responder started.
InsertFailureLeavesNothing ==
    [][ /\ InsertThrew(dbOps')
           => /\ Responded(resp')
              /\ resp'.status \in 500..599
              /\ events' = events
              /\ state' = state
              /\ ~Pushed(broadcast')
              /\ spawned' = Null
              /\ started' = started
              /\ BagCardinality(inflight') < BagCardinality(inflight)
        /\ \A inv \in BagToSet(inflight) :
              (/\ inv.pc = "verify"
               /\ inv \notin BagToSet(inflight')
               /\ "migrate" \notin dbOps'
               /\ Key(kind, inv.req) \in failed
               /\ ~HasId(events, Key(kind, inv.req))
               /\ ~InsertThrew(dbOps'))
              => /\ Len(events') = Len(events) + 1
                 /\ events'[Len(events')].id = Key(kind, inv.req)
                 /\ events'[Len(events')].payload = inv.req.body
                 /\ Pushed(broadcast')
                 /\ Count(state') = Len(events')
                 /\ spawned' = Key(kind, inv.req)
      ]_vars

\* C17 witness: the responder was started for an id a delivery of which had
\* ended in a failed insert, and the id has its one row.
RetryAfterFailedInsertAccepted ==
    /\ spawned # Null
    /\ spawned \in failed
    /\ Cardinality(RowsWithId(events, spawned)) = 1
    /\ Count(state) = Len(events)

RoutingFieldAbsent(router, payload) ==
    CASE router = "routeGitHubWebhook" -> payload.installation = Null
      [] router = "handleGitHubRoute"  -> ~payload.repository.has
      [] router = "routeLinearWebhook" -> payload.organizationId = Null

\* C19 (as claimed): a webhook whose body is not JSON, or has no routing
\* field, is forwarded to the actor of the provider's default key.
RouterFallsBack ==
    (/\ routed.body # Null
     /\ \/ ~JSONparse(routed.body).ok
        \/ RoutingFieldAbsent(probe.fn, JSONparse(routed.body)))
    => /\ routed.forwarded
       /\ routed.key = IF kind = "linear" THEN "linear" ELSE "github"

\* C20 (as claimed): verifySignature never throws, and returns true exactly
\* when the signature is the provider-format hex digest of the body.
VerifierTotal ==
    (probe.fn = "verifySignature" /\ probe.done)
    => /\ ~probe.threw
       /\ probe.out <=> probe.signature = Expected(kind, probe.body)

\* The limit and the offset a call asks for, by the documented defaults.
AskedLimit(r) == IF Len(r.args) >= 1 THEN r.args[1] ELSE DefaultLimit
AskedOffset(r) == IF Len(r.args) >= 2 THEN r.args[2] ELSE DefaultOffset

\* C21: getEvents(limit, offset), with limit 20 and offset 0 when left out,
\* returns the rows at positions offset .. offset+limit-1 of a newest-first
\* ordering of the ledger, and never more than limit rows.
HonoursLimitAndOffset ==
    Returned(result) =>
      /\ Len(result.rows) <= AskedLimit(result)
      /\ \E rows \in OrderByTimestampDesc(events) :
            result.rows = LimitOffset(rows, AskedLimit(result), AskedOffset(result))

ReturnedByType(r) == "none" \notin DOMAIN r /\ r.fn = "getEventsByType"

\* C22: getEventsByType returns only rows of the requested type, and returns
\* them in the order the unfiltered newest-first query gives the rows of that
\* type.
ByTypeFiltered ==
    ReturnedByType(result) =>
      /\ \A i \in 1..Len(result.rows) : result.rows[i].type = result.type
      /\ \E all \in OrderByTimestampDesc(events) :
            result.rows =
              LimitOffset(SelectSeq(all, LAMBDA row : row.type = result.type),
                          result.limit, result.offset)

\* C22 witness: a by-type query returned a row while the ledger also holds a
\* row of another type.
ByTypeLeftARowOut ==
    /\ ReturnedByType(result)
    /\ Len(result.rows) = 1
    /\ result.limit > 1
    /\ result.offset = 0
    /\ \E i \in 1..Len(events) : events[i].type # result.type

\* C23: an actor handles its webhook requests one at a time: at no moment
\* are two requests both between their method check and their response, so
\* no request takes a step while another is suspended at an await.
SerialRequests ==
    \A inv \in AwaitingResponse :
       AwaitingResponse = {inv} /\ CopiesIn(inv, inflight) = 1

\* C24: deliveries of one id that are in progress at the same time are
\* handled safely however their steps interleave: the id has exactly one
\* row, each of them is answered 200, and no insert throws.
ConcurrentSameIdSafe ==
    [][ /\ ~InsertThrew(dbOps')
        /\ (Responded(resp') /\ WellFormed(kind, resp'.req))
           => /\ resp'.status = 200
              /\ Cardinality(RowsWithId(events', Key(kind, resp'.req))) = 1 ]_vars

\* C24 witness: a delivery is answered 200 while another delivery of the
\* same id, already past its signature check or not, is still suspended.
AnsweredWhileSameIdSuspended ==
    /\ Responded(resp)
    /\ resp.status = 200
    /\ WellFormed(kind, resp.req)
    /\ \E inv \in AwaitingResponse :
          /\ WellFormed(kind, inv.req)
          /\ Key(kind, inv.req) = Key(kind, resp.req)
          /\ inv.pc \in {"verify", "handle"}
    /\ Cardinality(RowsWithId(events, Key(kind, resp.req))) = 1

\* The last event / last session of a summary state, and the null it starts as.
Last(st) == IF kind = "linear" THEN st.lastSession ELSE st.lastEvent
NoLast == IF kind = "linear" THEN NullSession ELSE NullEvent
\* The rows no other row is newer than.
NewestRows(rows) ==
    {i \in 1..Len(rows) :
       \A j \in 1..Len(rows) : ~TextLess(rows[i].timestamp, rows[j].timestamp)}
\* The summary entry names this row: its type (its id, for a session) and
\* its action.
Describes(last, row) ==
    /\ last.action = row.action
    /\ IF kind = "linear" THEN last.id = row.id ELSE last.type = row.type
Started(ops) == "migrate" \in ops

\* C25: after every start of the actor the summary state is the one
\* computed from the ledger: the count is the number of rows, and the last
\* event describes a newest row (it is null when there is no row).
SummaryRecomputedOnStart ==
    [][ Started(dbOps')
        => /\ Count(state') = Len(events')
           /\ IF events' = <<>> THEN Last(state') = NoLast
              ELSE \E i \in NewestRows(events') : Describes(Last(state'), events'[i]) ]_vars

\* C26: the start routine is idempotent: a start on a storage that was
\* started before throws nothing and leaves every ledger row and the schema
\* as they were, the schema being the one the first start created.
SchemaCreationIdempotent ==
    [][ Started(dbOps')
        => /\ "error" \notin dbOps'
           /\ events' = events
           /\ schema' = schema
           /\ schema' = SchemaOf(onStart(kind, EmptyDb)) ]_vars

\* C26 witness: the actor started again on a ledger of two rows.
StartedOnTwoRows ==
    /\ Started(dbOps)
    /\ Len(events) = 2
    /\ LedgerTable(kind) \in schema.objects

\* C27: the last event of the summary is the newest ledger row: after each
\* accepted delivery its type (id), action and timestamp are those stored in
\* a row no other row is newer than, and it is null while the ledger is empty.
LastEventIsNewestRow ==
    /\ events = <<>> => Last(state) = NoLast
    /\ Pushed(broadcast)
       => \E i \in NewestRows(events) :
             /\ Describes(Last(state), events[i])
             /\ Last(state).timestamp = events[i].timestamp

\* The responder runs that are at the given activity.
RunsAt(bag, pc) ==
    BagCardinality([inv \in {i \in BagToSet(bag) : i.pc = pc} |-> bag[inv]])
ErrorPending(bag) == RunsAt(bag, "error")

\* C28: a failed thought or response of a Linear responder run is followed by
\* one error activity of that run and a successful one by none; when the
\* error activity ends, failed or not, the run ends without raising and
\* without another attempt, and nothing of the actor changes.
ErrorActivityOnce ==
    [][ /\ (call'.api \in {"thought", "response"} /\ ~call'.ok)
           => /\ ErrorPending(inflight') = ErrorPending(inflight) + 1
              /\ BagCardinality(inflight') = BagCardinality(inflight)
              /\ ~call'.threw
        /\ (call'.api \in {"thought", "response"} /\ call'.ok)
           => ErrorPending(inflight') = ErrorPending(inflight)
        /\ call'.api = "error"
           => /\ ~call'.threw
              /\ ErrorPending(inflight') = ErrorPending(inflight) - 1
              /\ BagCardinality(inflight') = BagCardinality(inflight) - 1
              /\ ~Responded(resp')
              /\ events' = events
              /\ state' = state ]_vars

\* C28 witness: the error activity of a run failed, and no run is left at
\* its error activity.
ErrorActivityFailed ==
    /\ call.api = "error"
    /\ ~call.ok
    /\ ErrorPending(inflight) = 0

Answers(action) == action \in {"created", "prompted"}

\* C29: a Linear session event with action created or prompted starts a run
\* that emits a thought and then a response: a run comes to its response
\* only in the step in which its thought succeeded, every activity is emitted
\* by a run of such an event, and an event with another action starts no
\* activity.
ThoughtThenResponse ==
    [][ /\ (kind = "linear" /\ spawned' # Null)
           => RunsAt(inflight', "thought") =
                RunsAt(inflight, "thought")
                + (IF Answers(JSONparse(resp'.req.body).action) THEN 1 ELSE 0)
        /\ (kind = "linear" /\ spawned' = Null /\ call'.api # "thought")
           => RunsAt(inflight', "thought") <= RunsAt(inflight, "thought")
        /\ RunsAt(inflight', "response") > RunsAt(inflight, "response")
           => call'.api = "thought" /\ call'.ok
        /\ (call'.api = "thought" /\ call'.ok)
           => RunsAt(inflight', "response") = RunsAt(inflight, "response") + 1
        /\ call'.api \in {"thought", "response", "error"}
           => \E inv \in BagToSet(inflight) :
                 /\ inv.pc = call'.api
                 /\ JSONparse(inv.req.body).session = call'.id
                 /\ Answers(JSONparse(inv.req.body).action) ]_vars

\* C29 witness: a response activity went through while the ledger holds the
\* row of a session event of another action.
ResponseAfterOtherAction ==
    /\ call.api = "response"
    /\ call.ok
    /\ \E i \in 1..Len(events) : ~Answers(events[i].action)

\* No parse of the body comes before the verification of its signature.
VerifiedBeforeParsed(steps) ==
    \A i \in 1..Len(steps) :
       steps[i] = "parse" => \E j \in 1..(i - 1) : steps[j] = "verify"

\* C30: on the way of a webhook from the router to the actor's response the
\* body is handed to JSON.parse only after its signature was verified.
SignatureBeforeParse == VerifiedBeforeParsed(routed.steps)

TiesInInsertionOrder ==
    [][ (/\ Returned(result)
         /\ Returned(result')
         /\ result'.args = result.args
         /\ events' = events)
        => result'.rows = result.rows ]_vars

\* C33: the classifier's actor is the login of the payload's sender when the
\* payload has a sender and "unknown" when it has none, whatever the event
\* type.
ActorIsSenderOrUnknown ==
    Classified
    => probe.out.actor = (IF probe.in.payload.sender = Null THEN "unknown"
                          ELSE probe.in.payload.sender)

\* C33 witness: an event of a type the classifier does not know, without a
\* sender, was classified.
UnknownActorOfOtherType ==
    /\ Classified
    /\ probe.in.eventType = "ping"
    /\ probe.in.payload.sender = Null
    /\ probe.out.actor = "unknown"

\* A response to a correctly signed Linear POST whose body parses.
LinearParsed(r) ==
    /\ kind = "linear"
    /\ Responded(r)
    /\ r.req.method = "POST"
    /\ SignatureCorrect(kind, r.req)
    /\ JSONparse(r.req.body).ok
\* The step left the ledger and the summary alone and started no responder.
NothingDone ==
    /\ events' = events
    /\ state' = state
    /\ ~Pushed(broadcast')
    /\ spawned' = Null
    /\ started' = started
    /\ "insert" \notin dbOps'
    /\ "setState" \notin dbOps'
    /\ call' = NoCall
    /\ BagCardinality(inflight') < BagCardinality(inflight)

\* C34: a signed Linear session event without an agentSession, or without
\* its id, is answered 400, and the step inserts nothing, updates and
\* broadcasts no summary and starts no responder.
MissingSessionRejected ==
    [][ (/\ LinearParsed(resp')
         /\ JSONparse(resp'.req.body).type = "AgentSessionEvent"
         /\ JSONparse(resp'.req.body).session = Null)
        => (resp'.status = 400 /\ NothingDone) ]_vars

\* C34 witness: such an event was answered 400 by an actor that holds a row.
MissingSessionAnswered400 ==
    /\ LinearParsed(resp)
    /\ resp.req.body = "lnNoSession"
    /\ resp.status = 400
    /\ Len(events) > 0

\* C38: a signed Linear webhook of a type other than AgentSessionEvent is
\* answered 200, and the step inserts nothing, updates and broadcasts no
\* summary and starts no responder.
OtherTypeIgnored ==
    [][ (/\ LinearParsed(resp')
         /\ JSONparse(resp'.req.body).type # "AgentSessionEvent")
        => (resp'.status = 200 /\ resp'.text = "OK" /\ NothingDone) ]_vars

\* C38 witness: a webhook of another type was answered 200 by an actor that
\* holds a row, the one row it held before.
OtherTypeAnswered200 ==
    /\ LinearParsed(resp)
    /\ resp.req.body = "lnOther"
    /\ resp.status = 200
    /\ Len(events) = 1
    /\ Count(state) = 1

\* C35: when a GitHub actor answers 200, for a new delivery or a duplicate,
\* after the insert or after the comment call, the ledger holds a row with
\* the delivery id of the answered request at that moment; so does a Linear
\* actor's for the session id of a session event it answers 200.
AckImpliesStored ==
    [][ (/\ Responded(resp')
         /\ resp'.status = 200
         /\ IsGitHub \/ JSONparse(resp'.req.body).type = "AgentSessionEvent")
        => HasId(events', Key(kind, resp'.req)) ]_vars

\* C35 witness: the 200 that follows the comment call, for a delivery whose
\* row was stored before the call and is no longer the newest one: another
\* delivery was stored while the call was in flight.
AckedAfterLaterInsert ==
    /\ IsGitHub
    /\ Responded(resp)
    /\ resp.status = 200
    /\ call.api = "createComment"
    /\ Len(events) = 2
    /\ events[1].id = resp.req.delivery
    /\ events[2].id # resp.req.delivery

\* C36: before and after every step of a tenant actor, the last event (last
\* session) of the summary state is null exactly when its count is 0, and no
\* step makes the count smaller.
LastNullIffCountZero ==
    [][ /\ Last(state) = NoLast <=> Count(state) = 0
        /\ Last(state') = NoLast <=> Count(state') = 0
        /\ Count(state') >= Count(state) ]_vars

\* C36 witness: the summary was written for a second row, by an actor that
\* has had an insert fail.
SecondRowCounted ==
    /\ Pushed(broadcast)
    /\ Count(state) = 2
    /\ Last(state) # NoLast
    /\ failed # {}

\* The repositories named by the payloads of the rows an actor holds.
RepositoriesOf(rows) ==
    {full_name(JSONparse(rows[i].payload).repository) :
       i \in {j \in 1..Len(rows) : JSONparse(rows[j].payload).repository.has}}

\* C37 (as claimed): no tenant actor has been sent webhooks of two
\* repositories: the rows it holds name at most one full_name.
RepositoryKeyInjective ==
    \A key \in DOMAIN actors : Cardinality(RepositoriesOf(actors[key].events)) <= 1

\* The delivery ids of the invocations suspended at the comment call.
Commenting(bag) == {inv.req.delivery : inv \in {i \in BagToSet(bag) : i.pc = "handle"}}
\* The row stored under an id.
RowOf(rows, id) == rows[CHOOSE i \in RowsWithId(rows, id) : TRUE]
\* An opened issue of an installation.
OpenedIssue(row) ==
    row.type = "issues" /\ row.action = "opened" /\ row.installation_id # Null

\* C39: the step that accepts a GitHub delivery, and no other step, leaves
\* its invocation at the comment call, and it does so exactly when the row
\* it stored is an opened issue with an installation id; an id is accepted
\* once; a provider API call is the comment call of such an invocation,
\* which no longer waits for one after it.
WelcomeOnOpenedIssueOnly ==
    [][ IsGitHub =>
        /\ spawned' # Null
           => /\ spawned' \notin started
              /\ HasId(events', spawned')
              /\ spawned' \in Commenting(inflight')
                 <=> OpenedIssue(RowOf(events', spawned'))
        /\ \A d \in Commenting(inflight') \ Commenting(inflight) : spawned' = d
        /\ RunsAt(inflight', "handle") = Cardinality(Commenting(inflight'))
        /\ call'.api # Null
           => /\ call'.api = "createComment"
              /\ call'.id \in Commenting(inflight) \ Commenting(inflight')
              /\ OpenedIssue(RowOf(events, call'.id))
      ]_vars

\* C39 witness: the comment call of an opened issue ended, in an actor that
\* also accepted an issues event that is no opened issue of an installation.
CommentedOneOfTwoIssues ==
    /\ call.api = "createComment"
    /\ Len(events) = 2
    /\ \E i \in 1..2 : events[i].type = "issues" /\ ~OpenedIssue(events[i])

====
